---- MODULE Spec2Model ----
(***************************************************************************)
(* Model of the cache-aside client of src/cache/cache.go: Client.Get with  *)
(* its miss path (onCacheMiss) and hit path (onCacheHit), Client.Set, run  *)
(* directly or as the detached write-back goroutine, Client.Invalidate,    *)
(* and the atomic pendingWrites counter.  Storage, Builder and the         *)
(* BinaryEncoder value are external capabilities: their outcomes are       *)
(* chosen nondeterministically at the step that calls them.                *)
(***************************************************************************)
EXTENDS Integers, Sequences, FiniteSets, TLC

\* ---- bounds of the model ----
NumProcs == 2
MaxCalls == 2
NumKeys == 2
MaxVal == 2

\* ---- program constants ----
DefaultWriteTimeout == 3

Procs == 1..NumProcs
Keys == 1..NumKeys
Values == 1..MaxVal
WriteTimeouts == {0, 1}

Nil == "nil"
Zero == 0
Background == 0
ErrCacheMiss == "ErrCacheMiss"
StorageErrs == {"storage timeout"}
BuildErrs == {"db unreachable"}
ErrUnmarshal == "unmarshal error"
ErrMarshal == "marshal error"
ErrInvalidate == "invalidate error"
ErrSet == "set error"

\* ---- BinaryEncoder: the value's own encoding ----
MarshalBinary(v) == <<"enc", v>>

CorruptBytes == <<"bad">>

UnmarshalBinary(b) ==
    IF Len(b) = 2 /\ b[1] = "enc"
    THEN [err |-> Nil, val |-> b[2]]
    ELSE [err |-> ErrUnmarshal, val |-> Zero]

Absent == [present |-> FALSE, bytes |-> <<>>]
Entry(b) == [present |-> TRUE, bytes |-> b]

\* what the backend may hold before the client is used
InitialEntries == {Absent, Entry(CorruptBytes), Entry(MarshalBinary(1))}

\* ---- errors ----
NoError == [kind |-> "nil", cause |-> Nil]
PlainError(e) == [kind |-> "plain", cause |-> e]
LambdaError(e) == [kind |-> "LambdaError", cause |-> e]

VARIABLES
    storage,        \* Storage backend: key -> entry
    WriteTimeout,   \* Client.WriteTimeout, set at construction
    pendingWrites,  \* Client.pendingWrites
    call,           \* per caller: the call it is making or has just finished
    sets,           \* executions of Client.Set (write-back goroutines and direct calls)
    cancelled,      \* ids of caller contexts that have been cancelled
    ncalls          \* number of calls started so far

vars == <<storage, WriteTimeout, pendingWrites, call, sets, cancelled, ncalls>>

IdleCall ==
    [op |-> "none", pc |-> "idle", id |-> 0, key |-> 1,
     dest |-> Zero, built |-> Zero, read |-> Absent, got |-> "none",
     storageErr |-> Nil, buildErr |-> Nil, invalidateErr |-> Nil,
     ret |-> NoError, tracked |-> <<>>,
     builds |-> 0, invalidates |-> 0, incs |-> 0, spawned |-> 0]

Init ==
    /\ storage \in [Keys -> InitialEntries]
    /\ WriteTimeout \in WriteTimeouts
    /\ pendingWrites = 0
    /\ call = [p \in Procs |-> IdleCall]
    /\ sets = <<>>
    /\ cancelled = {}
    /\ ncalls = 0

\* ---- accessors ----
getWriteTimeout == IF WriteTimeout > 0 THEN WriteTimeout ELSE DefaultWriteTimeout

Track(c, m) == [c EXCEPT !.tracked = Append(@, m)]

CanStart(p) == call[p].pc \in {"idle", "done"} /\ ncalls < MaxCalls

NewCall(o, k) == [IdleCall EXCEPT !.op = o, !.id = ncalls + 1, !.key = k]

\* context.WithTimeout(parent, d)
WithTimeout(parent, d) == [parent |-> parent, timeout |-> d, expired |-> FALSE]

\* ctx.Done() of a derived context: deadline passed or parent cancelled
CtxDone(ctx) == ctx.expired \/ ctx.parent \in cancelled

\* ---- Client.Get ----
\* mutant: onCacheHit forgets the hit metric
onCacheHit_NoHitMetric(c, bytes) ==
    LET r == UnmarshalBinary(bytes) IN
    IF r.err # Nil
    THEN [Track(c, "CacheUnmarshalError") EXCEPT !.pc = "invalidate", !.ret = PlainError(r.err)]
    ELSE [c EXCEPT !.dest = r.val, !.ret = NoError, !.pc = "done"]

\* onCacheHit up to the invalidation
onCacheHit(c, bytes) ==
    LET r == UnmarshalBinary(bytes) IN
    IF r.err # Nil
    THEN [Track(c, "CacheUnmarshalError") EXCEPT !.pc = "invalidate", !.ret = PlainError(r.err)]
    ELSE [Track(c, "CacheHit") EXCEPT !.dest = r.val, !.ret = NoError, !.pc = "done"]

\* mutant: Get reserves the pending-write slot on the miss, before the builder runs
Get_IncBeforeBuild(p, k) ==
    /\ CanStart(p)
    /\ \E e \in {Nil} \cup StorageErrs :
        LET c == NewCall("Get", k)
            ent == storage[k]
            err == IF e # Nil THEN e ELSE IF ent.present THEN Nil ELSE ErrCacheMiss
        IN
        /\ call' = [call EXCEPT ![p] =
            IF err = Nil
            THEN onCacheHit([c EXCEPT !.got = "ok", !.read = ent], ent.bytes)
            ELSE IF err = ErrCacheMiss
            THEN [Track([c EXCEPT !.got = "miss", !.incs = 1], "CacheMiss") EXCEPT !.pc = "build"]
            ELSE [Track([c EXCEPT !.got = "error", !.storageErr = err], "CacheGetError")
                     EXCEPT !.ret = PlainError(err), !.pc = "done"]]
        /\ pendingWrites' = IF err = ErrCacheMiss THEN pendingWrites + 1 ELSE pendingWrites
    /\ ncalls' = ncalls + 1
    /\ UNCHANGED <<storage, WriteTimeout, sets, cancelled>>

\* mutant: Get returns a storage error without a metric
Get_NoErrorMetric(p, k) ==
    /\ CanStart(p)
    /\ \E e \in {Nil} \cup StorageErrs :
        LET c == NewCall("Get", k)
            ent == storage[k]
            err == IF e # Nil THEN e ELSE IF ent.present THEN Nil ELSE ErrCacheMiss
        IN
        call' = [call EXCEPT ![p] =
            IF err = Nil
            THEN onCacheHit([c EXCEPT !.got = "ok", !.read = ent], ent.bytes)
            ELSE IF err = ErrCacheMiss
            THEN [Track([c EXCEPT !.got = "miss"], "CacheMiss") EXCEPT !.pc = "build"]
            ELSE [c EXCEPT !.got = "error", !.storageErr = err,
                           !.ret = PlainError(err), !.pc = "done"]]
    /\ ncalls' = ncalls + 1
    /\ UNCHANGED <<storage, WriteTimeout, pendingWrites, sets, cancelled>>

\* mutant: Get treats every storage error as a miss
Get_BuildOnError(p, k) ==
    /\ CanStart(p)
    /\ \E e \in {Nil} \cup StorageErrs :
        LET c == NewCall("Get", k)
            ent == storage[k]
            err == IF e # Nil THEN e ELSE IF ent.present THEN Nil ELSE ErrCacheMiss
        IN
        call' = [call EXCEPT ![p] =
            IF err = Nil
            THEN onCacheHit([c EXCEPT !.got = "ok", !.read = ent], ent.bytes)
            ELSE IF err = ErrCacheMiss
            THEN [Track([c EXCEPT !.got = "miss"], "CacheMiss") EXCEPT !.pc = "build"]
            ELSE [Track([c EXCEPT !.got = "error", !.storageErr = err], "CacheMiss")
                     EXCEPT !.pc = "build"]]
    /\ ncalls' = ncalls + 1
    /\ UNCHANGED <<storage, WriteTimeout, pendingWrites, sets, cancelled>>

\* Get: c.Storage.Get and the branch on its result
Get(p, k) ==
    /\ CanStart(p)
    /\ \E e \in {Nil} \cup StorageErrs :
        LET c == NewCall("Get", k)
            ent == storage[k]
            err == IF e # Nil THEN e ELSE IF ent.present THEN Nil ELSE ErrCacheMiss
        IN
        call' = [call EXCEPT ![p] =
            IF err = Nil
            THEN onCacheHit([c EXCEPT !.got = "ok", !.read = ent], ent.bytes)
            ELSE IF err = ErrCacheMiss
            THEN [Track([c EXCEPT !.got = "miss"], "CacheMiss") EXCEPT !.pc = "build"]
            ELSE [Track([c EXCEPT !.got = "error", !.storageErr = err], "CacheGetError")
                     EXCEPT !.ret = PlainError(err), !.pc = "done"]]
    /\ ncalls' = ncalls + 1
    /\ UNCHANGED <<storage, WriteTimeout, pendingWrites, sets, cancelled>>

\* mutant: onCacheMiss goes on to the write-back although Build failed
GetBuild_WriteOnFailure(p) ==
    /\ call[p].pc = "build"
    /\ \/ \E e \in BuildErrs :
            call' = [call EXCEPT ![p] =
                   [Track([@ EXCEPT !.builds = @ + 1, !.buildErr = e], "CacheLambdaError")
                       EXCEPT !.incs = @ + 1, !.pc = "go"]]
       \/ \E v \in Values :
            call' = [call EXCEPT ![p] =
                   [@ EXCEPT !.builds = @ + 1, !.dest = v, !.built = v,
                             !.incs = @ + 1, !.pc = "go"]]
    /\ pendingWrites' = pendingWrites + 1
    /\ UNCHANGED <<storage, WriteTimeout, sets, cancelled, ncalls>>

\* mutant: a miss reuses the value another call has just built for the same key
\* instead of building and writing itself
GetBuild_Coalesce(p) ==
    /\ call[p].pc = "build"
    /\ LET others == {q \in Procs \ {p} :
                         /\ call[q].op = "Get" /\ call[q].key = call[p].key
                         /\ call[q].got = "miss" /\ call[q].pc \in {"go", "done"}
                         /\ call[q].buildErr = Nil}
       IN
       IF others # {}
       THEN /\ \E q \in others :
                 call' = [call EXCEPT ![p] =
                     [@ EXCEPT !.dest = call[q].built, !.built = call[q].built,
                               !.ret = NoError, !.pc = "done"]]
            /\ UNCHANGED pendingWrites
       ELSE \/ \E e \in BuildErrs :
                 /\ call' = [call EXCEPT ![p] =
                        [Track([@ EXCEPT !.builds = @ + 1, !.buildErr = e], "CacheLambdaError")
                            EXCEPT !.ret = LambdaError(e), !.pc = "done"]]
                 /\ UNCHANGED pendingWrites
            \/ \E v \in Values :
                 /\ call' = [call EXCEPT ![p] =
                        [@ EXCEPT !.builds = @ + 1, !.dest = v, !.built = v,
                                  !.incs = @ + 1, !.pc = "go"]]
                 /\ pendingWrites' = pendingWrites + 1
    /\ UNCHANGED <<storage, WriteTimeout, sets, cancelled, ncalls>>

\* onCacheMiss: builder.Build, then atomic.AddInt64(&c.pendingWrites, 1)
GetBuild(p) ==
    /\ call[p].pc = "build"
    /\ \/ \E e \in BuildErrs :
            /\ call' = [call EXCEPT ![p] =
                   [Track([@ EXCEPT !.builds = @ + 1, !.buildErr = e], "CacheLambdaError")
                       EXCEPT !.ret = LambdaError(e), !.pc = "done"]]
            /\ UNCHANGED pendingWrites
       \/ \E v \in Values :
            /\ call' = [call EXCEPT ![p] =
                   [@ EXCEPT !.builds = @ + 1, !.dest = v, !.built = v,
                             !.incs = @ + 1, !.pc = "go"]]
            /\ pendingWrites' = pendingWrites + 1
    /\ UNCHANGED <<storage, WriteTimeout, sets, cancelled, ncalls>>

\* mutant: onCacheMiss hands the caller's ctx to the write-back
WriteBackParent_CallerCtx(c) == c.id

\* the context handed to the write-back by onCacheMiss
WriteBackParent(c) == Background

\* an execution of Set(ctx, key, val) that has not started running yet; val is the
\* dest object itself, forKey and built remember the call it was made for
NewSet(kind, p, c, parent, k, v) ==
    [kind |-> kind, owner |-> p, call |-> c.id, forKey |-> c.key, key |-> k,
     dest |-> v, built |-> v, marshalled |-> Zero,
     ctx |-> WithTimeout(parent, 0), pc |-> "spawned",
     bytes |-> <<>>, tracked |-> <<>>, stored |-> <<>>, decs |-> 0, err |-> Nil]

\* mutant: onCacheMiss returns without starting the write-back
GetSpawn_NoWrite(p) ==
    /\ call[p].pc = "go"
    /\ call' = [call EXCEPT ![p] = [@ EXCEPT !.ret = NoError, !.pc = "done"]]
    /\ UNCHANGED <<storage, WriteTimeout, pendingWrites, sets, cancelled, ncalls>>

\* mutant: onCacheMiss calls c.Set without the go statement and returns after it
GetSpawn_Synchronous(p) ==
    /\ call[p].pc = "go"
    /\ sets' = Append(sets, NewSet("direct", p, call[p], WriteBackParent(call[p]),
                                    call[p].key, call[p].dest))
    /\ call' = [call EXCEPT ![p] = [@ EXCEPT !.spawned = @ + 1, !.ret = NoError, !.pc = "set"]]
    /\ UNCHANGED <<storage, WriteTimeout, pendingWrites, cancelled, ncalls>>

\* onCacheMiss: go c.Set(context.Background(), key, dest); return nil
GetSpawn(p) ==
    /\ call[p].pc = "go"
    /\ sets' = Append(sets, NewSet("async", p, call[p], WriteBackParent(call[p]),
                                    call[p].key, call[p].dest))
    /\ call' = [call EXCEPT ![p] = [@ EXCEPT !.spawned = @ + 1, !.ret = NoError, !.pc = "done"]]
    /\ UNCHANGED <<storage, WriteTimeout, pendingWrites, cancelled, ncalls>>

\* mutant: onCacheHit returns the error of the invalidation when it fails
GetInvalidate_ReturnsInvalidateErr(p) ==
    /\ call[p].pc = "invalidate"
    /\ \/ /\ storage' = [storage EXCEPT ![call[p].key] = Absent]
          /\ call' = [call EXCEPT ![p] = [@ EXCEPT !.invalidates = @ + 1, !.pc = "done"]]
       \/ /\ UNCHANGED storage
          /\ call' = [call EXCEPT ![p] =
                 [Track([@ EXCEPT !.invalidates = @ + 1, !.invalidateErr = ErrInvalidate],
                        "CacheInvalidateError")
                     EXCEPT !.ret = PlainError(ErrInvalidate), !.pc = "done"]]
    /\ UNCHANGED <<WriteTimeout, pendingWrites, sets, cancelled, ncalls>>

\* mutant: the best-effort invalidation of onCacheHit fails without a metric
GetInvalidate_SilentFailure(p) ==
    /\ call[p].pc = "invalidate"
    /\ \/ /\ storage' = [storage EXCEPT ![call[p].key] = Absent]
          /\ call' = [call EXCEPT ![p] = [@ EXCEPT !.invalidates = @ + 1, !.pc = "done"]]
       \/ /\ UNCHANGED storage
          /\ call' = [call EXCEPT ![p] =
                 [@ EXCEPT !.invalidates = @ + 1, !.invalidateErr = ErrInvalidate,
                           !.pc = "done"]]
    /\ UNCHANGED <<WriteTimeout, pendingWrites, sets, cancelled, ncalls>>

\* onCacheHit: _ = c.Invalidate(ctx, key); return err
GetInvalidate(p) ==
    /\ call[p].pc = "invalidate"
    /\ \/ /\ storage' = [storage EXCEPT ![call[p].key] = Absent]
          /\ call' = [call EXCEPT ![p] = [@ EXCEPT !.invalidates = @ + 1, !.pc = "done"]]
       \/ /\ UNCHANGED storage
          /\ call' = [call EXCEPT ![p] =
                 [Track([@ EXCEPT !.invalidates = @ + 1, !.invalidateErr = ErrInvalidate],
                        "CacheInvalidateError") EXCEPT !.pc = "done"]]
    /\ UNCHANGED <<WriteTimeout, pendingWrites, sets, cancelled, ncalls>>

\* ---- Client.Set ----
\* a caller invokes Set directly with its own context
StartSet(p, k, v) ==
    /\ CanStart(p)
    /\ LET c == [NewCall("Set", k) EXCEPT !.pc = "set", !.dest = v] IN
        /\ call' = [call EXCEPT ![p] = c]
        /\ sets' = Append(sets, NewSet("direct", p, c, c.id, k, v))
    /\ ncalls' = ncalls + 1
    /\ UNCHANGED <<storage, WriteTimeout, pendingWrites, cancelled>>

\* the caller of a finished direct Set gets control back
Returned(c, s) == IF s.kind = "direct" THEN [c EXCEPT !.pc = "done"] ELSE c

\* mutant: the marshal-failure return of Set skips the decrement
SetMarshal_NoDecOnFailure(i) ==
    /\ i \in 1..Len(sets)
    /\ sets[i].pc = "spawned"
    /\ LET s == [sets[i] EXCEPT !.ctx = WithTimeout(@.parent, getWriteTimeout),
                               !.marshalled = sets[i].dest] IN
       \/ /\ sets' = [sets EXCEPT ![i] =
                 [s EXCEPT !.bytes = MarshalBinary(s.dest), !.pc = "storing"]]
          /\ UNCHANGED call
       \/ /\ sets' = [sets EXCEPT ![i] =
                 [Track(s, "CacheMarshalError") EXCEPT !.err = ErrMarshal, !.pc = "done"]]
          /\ call' = [call EXCEPT ![s.owner] = Returned(@, s)]
    /\ UNCHANGED <<storage, WriteTimeout, pendingWrites, cancelled, ncalls>>

\* mutant: Set goes on to Storage.Set with the bytes of a failed MarshalBinary
SetMarshal_StoresOnFailure(i) ==
    /\ i \in 1..Len(sets)
    /\ sets[i].pc = "spawned"
    /\ LET s == [sets[i] EXCEPT !.ctx = WithTimeout(@.parent, getWriteTimeout),
                               !.marshalled = sets[i].dest] IN
       \/ /\ sets' = [sets EXCEPT ![i] =
                 [s EXCEPT !.bytes = MarshalBinary(s.dest), !.pc = "storing"]]
          /\ UNCHANGED <<pendingWrites, call, storage>>
       \/ /\ sets' = [sets EXCEPT ![i] =
                 [Track(s, "CacheMarshalError") EXCEPT !.err = ErrMarshal,
                                                       !.stored = Append(@, <<s.key, <<>>>>),
                                                       !.decs = @ + 1, !.pc = "done"]]
          /\ storage' = [storage EXCEPT ![s.key] = Entry(<<>>)]
          /\ pendingWrites' = pendingWrites - 1
          /\ call' = [call EXCEPT ![s.owner] = Returned(@, s)]
    /\ UNCHANGED <<WriteTimeout, cancelled, ncalls>>

\* Set: context.WithTimeout, val.MarshalBinary; on failure the deferred decrement runs
SetMarshal(i) ==
    /\ i \in 1..Len(sets)
    /\ sets[i].pc = "spawned"
    /\ LET s == [sets[i] EXCEPT !.ctx = WithTimeout(@.parent, getWriteTimeout),
                               !.marshalled = sets[i].dest] IN
       \/ /\ sets' = [sets EXCEPT ![i] =
                 [s EXCEPT !.bytes = MarshalBinary(s.dest), !.pc = "storing"]]
          /\ UNCHANGED <<pendingWrites, call>>
       \/ /\ sets' = [sets EXCEPT ![i] =
                 [Track(s, "CacheMarshalError") EXCEPT !.err = ErrMarshal,
                                                       !.decs = @ + 1, !.pc = "done"]]
          /\ pendingWrites' = pendingWrites - 1
          /\ call' = [call EXCEPT ![s.owner] = Returned(@, s)]
    /\ UNCHANGED <<storage, WriteTimeout, cancelled, ncalls>>

\* mutant: Set stores under the key with an empty payload
SetStore_EmptyPayload(i) ==
    /\ i \in 1..Len(sets)
    /\ sets[i].pc = "storing"
    /\ LET s == [sets[i] EXCEPT !.stored = Append(@, <<sets[i].key, <<>>>>),
                               !.decs = @ + 1, !.pc = "done"] IN
       \/ /\ storage' = [storage EXCEPT ![s.key] = Entry(<<>>)]
          /\ sets' = [sets EXCEPT ![i] = s]
       \/ /\ UNCHANGED storage
          /\ sets' = [sets EXCEPT ![i] = [Track(s, "CacheSetError") EXCEPT !.err = ErrSet]]
    /\ pendingWrites' = pendingWrites - 1
    /\ call' = [call EXCEPT ![sets[i].owner] = Returned(@, sets[i])]
    /\ UNCHANGED <<WriteTimeout, cancelled, ncalls>>

\* mutant: the deferred decrement is missed when Storage.Set fails
SetStore_NoDecOnSetError(i) ==
    /\ i \in 1..Len(sets)
    /\ sets[i].pc = "storing"
    /\ LET s == [sets[i] EXCEPT !.stored = Append(@, <<sets[i].key, sets[i].bytes>>),
                               !.pc = "done"] IN
       \/ /\ storage' = [storage EXCEPT ![s.key] = Entry(s.bytes)]
          /\ sets' = [sets EXCEPT ![i] = [s EXCEPT !.decs = @ + 1]]
          /\ pendingWrites' = pendingWrites - 1
       \/ /\ UNCHANGED <<storage, pendingWrites>>
          /\ sets' = [sets EXCEPT ![i] = [Track(s, "CacheSetError") EXCEPT !.err = ErrSet]]
    /\ call' = [call EXCEPT ![sets[i].owner] = Returned(@, sets[i])]
    /\ UNCHANGED <<WriteTimeout, cancelled, ncalls>>

\* Set: c.Storage.Set returns; the deferred cancelFn and decrement run
SetStore(i) ==
    /\ i \in 1..Len(sets)
    /\ sets[i].pc = "storing"
    /\ LET s == [sets[i] EXCEPT !.stored = Append(@, <<sets[i].key, sets[i].bytes>>),
                               !.decs = @ + 1, !.pc = "done"] IN
       \/ /\ storage' = [storage EXCEPT ![s.key] = Entry(s.bytes)]
          /\ sets' = [sets EXCEPT ![i] = s]
       \/ /\ UNCHANGED storage
          /\ sets' = [sets EXCEPT ![i] = [Track(s, "CacheSetError") EXCEPT !.err = ErrSet]]
    /\ pendingWrites' = pendingWrites - 1
    /\ call' = [call EXCEPT ![sets[i].owner] = Returned(@, sets[i])]
    /\ UNCHANGED <<WriteTimeout, cancelled, ncalls>>

\* mutant: Invalidate tracks the storage error but returns nil
Invalidate_SwallowsError(p, k) ==
    /\ CanStart(p)
    /\ LET c == NewCall("Invalidate", k) IN
       \/ /\ storage' = [storage EXCEPT ![k] = Absent]
          /\ call' = [call EXCEPT ![p] =
                 [c EXCEPT !.invalidates = @ + 1, !.ret = NoError, !.pc = "done"]]
       \/ /\ UNCHANGED storage
          /\ call' = [call EXCEPT ![p] =
                 [Track([c EXCEPT !.invalidates = @ + 1, !.invalidateErr = ErrInvalidate],
                        "CacheInvalidateError")
                     EXCEPT !.ret = NoError, !.pc = "done"]]
    /\ ncalls' = ncalls + 1
    /\ UNCHANGED <<WriteTimeout, pendingWrites, sets, cancelled>>

\* mutant: Invalidate reports success without removing the entry
Invalidate_KeepsEntry(p, k) ==
    /\ CanStart(p)
    /\ LET c == NewCall("Invalidate", k) IN
       \/ /\ UNCHANGED storage
          /\ call' = [call EXCEPT ![p] =
                 [c EXCEPT !.invalidates = @ + 1, !.ret = NoError, !.pc = "done"]]
       \/ /\ UNCHANGED storage
          /\ call' = [call EXCEPT ![p] =
                 [Track([c EXCEPT !.invalidates = @ + 1, !.invalidateErr = ErrInvalidate],
                        "CacheInvalidateError")
                     EXCEPT !.ret = PlainError(ErrInvalidate), !.pc = "done"]]
    /\ ncalls' = ncalls + 1
    /\ UNCHANGED <<WriteTimeout, pendingWrites, sets, cancelled>>

\* ---- Client.Invalidate ----
Invalidate(p, k) ==
    /\ CanStart(p)
    /\ LET c == NewCall("Invalidate", k) IN
       \/ /\ storage' = [storage EXCEPT ![k] = Absent]
          /\ call' = [call EXCEPT ![p] =
                 [c EXCEPT !.invalidates = @ + 1, !.ret = NoError, !.pc = "done"]]
       \/ /\ UNCHANGED storage
          /\ call' = [call EXCEPT ![p] =
                 [Track([c EXCEPT !.invalidates = @ + 1, !.invalidateErr = ErrInvalidate],
                        "CacheInvalidateError")
                     EXCEPT !.ret = PlainError(ErrInvalidate), !.pc = "done"]]
    /\ ncalls' = ncalls + 1
    /\ UNCHANGED <<WriteTimeout, pendingWrites, sets, cancelled>>

\* ---- environment ----
\* some Set still running was started by the call with this id
InUse(id) == \E i \in 1..Len(sets) : sets[i].call = id /\ sets[i].pc # "done"

\* the caller (or its deadline) cancels the context it passed to its latest call,
\* while the call runs or after it returned
CancelCtx(p) ==
    /\ call[p].id # 0
    /\ call[p].id \notin cancelled
    /\ call[p].pc # "done" \/ InUse(call[p].id)
    /\ cancelled' = cancelled \cup {call[p].id}
    /\ UNCHANGED <<storage, WriteTimeout, pendingWrites, call, sets, ncalls>>

\* the write timeout of a Set waiting on Storage.Set runs out
DeadlineExceeded(i) ==
    /\ i \in 1..Len(sets)
    /\ sets[i].pc = "storing"
    /\ ~sets[i].ctx.expired
    /\ sets' = [sets EXCEPT ![i] = [@ EXCEPT !.ctx.expired = TRUE]]
    /\ UNCHANGED <<storage, WriteTimeout, pendingWrites, call, cancelled, ncalls>>

\* after Get returned, the caller writes to the dest object the write-back still holds
CallerWrite(i, v) ==
    /\ i \in 1..Len(sets)
    /\ sets[i].kind = "async"
    /\ sets[i].pc = "spawned"
    /\ sets[i].dest # v
    /\ sets' = [sets EXCEPT ![i] = [@ EXCEPT !.dest = v]]
    /\ UNCHANGED <<storage, WriteTimeout, pendingWrites, call, cancelled, ncalls>>

Next ==
    \/ \E p \in Procs, k \in Keys : Get(p, k)
    \/ \E p \in Procs : GetBuild(p)
    \/ \E p \in Procs : GetSpawn(p)
    \/ \E p \in Procs : GetInvalidate(p)
    \/ \E p \in Procs, k \in Keys, v \in Values : StartSet(p, k, v)
    \/ \E i \in 1..MaxCalls : SetMarshal(i)
    \/ \E i \in 1..MaxCalls : SetStore(i)
    \/ \E p \in Procs, k \in Keys : Invalidate(p, k)
    \/ \E p \in Procs : CancelCtx(p)
    \/ \E i \in 1..MaxCalls : DeadlineExceeded(i)
    \/ \E i \in 1..MaxCalls, v \in Values : CallerWrite(i, v)

Spec == Init /\ [][Next]_vars

FairSpec ==
    /\ Spec
    /\ \A i \in 1..MaxCalls : WF_vars(SetMarshal(i)) /\ WF_vars(SetStore(i))

\* ---- vocabulary of the properties ----
Count(seq, m) == Cardinality({j \in 1..Len(seq) : seq[j] = m})

\* a Get call that has returned to its caller
RetGet(p) == call[p].op = "Get" /\ call[p].pc = "done"

\* the executions of Set started by the call with this id
SetsOf(id) == {i \in 1..Len(sets) : sets[i].call = id}

MissBuilt(c) == c.got = "miss" /\ c.builds = 1 /\ c.buildErr = Nil
BuildFailed(c) == c.got = "miss" /\ c.builds = 1 /\ c.buildErr # Nil
DecodeOk(c) == c.got = "ok" /\ UnmarshalBinary(c.read.bytes).err = Nil
DecodeFailed(c) == c.got = "ok" /\ UnmarshalBinary(c.read.bytes).err # Nil
StorageFailed(c) == c.got = "error"

\* ---- C1 ----
\* C1: a Get whose Storage.Get signalled ErrCacheMiss and whose Build succeeded
\* returns no error, dest holds the built value, it has recorded exactly one miss
\* metric and it has scheduled exactly one write-back, for its own key.
C1_MissBuildSchedulesOneWrite ==
    \A p \in Procs :
        (RetGet(p) /\ MissBuilt(call[p])) =>
            /\ call[p].ret = NoError
            /\ call[p].dest = call[p].built
            /\ call[p].dest \in Values
            /\ Count(call[p].tracked, "CacheMiss") = 1
            /\ call[p].spawned = 1
            /\ Cardinality(SetsOf(call[p].id)) = 1
            /\ \A i \in SetsOf(call[p].id) :
                   sets[i].kind = "async" /\ sets[i].key = call[p].key

C1_Witness ==
    \E p \in Procs :
        /\ RetGet(p) /\ MissBuilt(call[p])
        /\ call[p].key = 2 /\ call[p].dest = 2
        /\ Cardinality(SetsOf(call[p].id)) = 1

\* ---- C3 ----
\* C3: a Get whose Storage.Get returned bytes that decode returns no error, dest is
\* the decoded stored value, exactly one hit metric is recorded and the builder
\* was not invoked.
C3_HitDecodes ==
    \A p \in Procs :
        (RetGet(p) /\ DecodeOk(call[p])) =>
            /\ call[p].ret = NoError
            /\ call[p].read.present
            /\ MarshalBinary(call[p].dest) = call[p].read.bytes
            /\ Count(call[p].tracked, "CacheHit") = 1
            /\ Len(call[p].tracked) = 1
            /\ call[p].builds = 0

C3_Witness ==
    \E p \in Procs :
        /\ RetGet(p) /\ DecodeOk(call[p])
        /\ call[p].dest = 2
        /\ call[p].tracked = <<"CacheHit">>

\* ---- C4 ----
\* C4: a Get whose Build failed with cause E returns LambdaError{Cause: E}; it has
\* not incremented pendingWrites and has scheduled no write-back, so no Storage.Set
\* is ever made for it.
C4_BuildFailureWrapsAndSkipsWrite ==
    \A p \in Procs :
        (RetGet(p) /\ BuildFailed(call[p])) =>
            /\ call[p].ret = LambdaError(call[p].buildErr)
            /\ call[p].buildErr \in BuildErrs
            /\ call[p].incs = 0
            /\ call[p].spawned = 0
            /\ SetsOf(call[p].id) = {}

C4_Witness ==
    \E p \in Procs :
        /\ RetGet(p) /\ BuildFailed(call[p])
        /\ call[p].ret = LambdaError("db unreachable")
        /\ Len(sets) = 0

\* ---- C5 ----
\* C5: a Get whose stored bytes fail to decode returns the decode error and has
\* called Storage.Invalidate exactly once, whether that invalidation succeeded or
\* failed.
C5_DecodeFailureInvalidatesOnce ==
    \A p \in Procs :
        (RetGet(p) /\ DecodeFailed(call[p])) =>
            /\ call[p].ret = PlainError(UnmarshalBinary(call[p].read.bytes).err)
            /\ call[p].invalidates = 1
            /\ call[p].builds = 0

C5_Witness ==
    \E p \in Procs :
        /\ RetGet(p) /\ DecodeFailed(call[p])
        /\ call[p].invalidateErr = ErrInvalidate
        /\ call[p].ret = PlainError(ErrUnmarshal)
        /\ storage[call[p].key] = Entry(CorruptBytes)

\* ---- C6 ----
\* C6: a Get whose Storage.Get failed with an error other than ErrCacheMiss returns
\* that error unchanged, without invoking the builder and without any Storage.Set.
C6_StorageErrorPassesThrough ==
    \A p \in Procs :
        (RetGet(p) /\ StorageFailed(call[p])) =>
            /\ call[p].ret = PlainError(call[p].storageErr)
            /\ call[p].storageErr \in StorageErrs
            /\ call[p].builds = 0
            /\ call[p].incs = 0
            /\ SetsOf(call[p].id) = {}

C6_Witness ==
    \E p \in Procs :
        /\ RetGet(p) /\ StorageFailed(call[p])
        /\ call[p].ret = PlainError("storage timeout")
        /\ ~storage[call[p].key].present

\* ---- C7 ----
\* a write-back counts as scheduled from the increment of pendingWrites that
\* precedes its go statement; it has settled when its Set has returned
AllWritesSettled ==
    /\ \A p \in Procs : call[p].pc # "go"
    /\ \A i \in 1..Len(sets) : sets[i].pc = "done"

NoDirectSet == \A i \in 1..Len(sets) : sets[i].kind = "async"

\* C7: when the callers have made no direct Set call (Get calls, in any interleaving), whenever
\* every scheduled write-back has settled (stored, failed to marshal or failed in
\* storage) pendingWrites is zero.
C7_CounterBackToZero ==
    (NoDirectSet /\ AllWritesSettled) => pendingWrites = 0

C7_Witness ==
    /\ NoDirectSet /\ AllWritesSettled
    /\ Len(sets) = 2
    /\ sets[1].err = ErrMarshal
    /\ sets[2].err = ErrSet
    /\ pendingWrites = 0

\* ---- C8 ----
GetEvents ==
    {"CacheHit", "CacheMiss", "CacheGetError", "CacheLambdaError", "CacheUnmarshalError"}

NumGetEvents(c) == Cardinality({j \in 1..Len(c.tracked) : c.tracked[j] \in GetEvents})

\* C8 as stated: every returned Get has recorded exactly one of the events hit,
\* miss, get-error, build-error, unmarshal-error.
C8_Original_ExactlyOneEvent ==
    \A p \in Procs : RetGet(p) => NumGetEvents(call[p]) = 1

\* C8 amended: a returned Get has recorded exactly one of these events on the hit,
\* decode-failure, storage-error and miss-with-successful-build paths, and exactly
\* two, miss followed by build-error, on the miss-with-failed-build path.
C8_OneEventExceptFailedBuild ==
    \A p \in Procs :
        RetGet(p) =>
            LET c == call[p]
                ev == SelectSeq(c.tracked, LAMBDA m : m \in GetEvents)
            IN  /\ DecodeOk(c) => ev = <<"CacheHit">>
                /\ DecodeFailed(c) => ev = <<"CacheUnmarshalError">>
                /\ StorageFailed(c) => ev = <<"CacheGetError">>
                /\ MissBuilt(c) => ev = <<"CacheMiss">>
                /\ BuildFailed(c) => ev = <<"CacheMiss", "CacheLambdaError">>
                /\ DecodeOk(c) \/ DecodeFailed(c) \/ StorageFailed(c)
                       \/ MissBuilt(c) \/ BuildFailed(c)

C8_Witness ==
    \E p, q \in Procs :
        /\ RetGet(p) /\ BuildFailed(call[p])
        /\ call[p].tracked = <<"CacheMiss", "CacheLambdaError">>
        /\ RetGet(q) /\ DecodeFailed(call[q])
        /\ call[q].tracked = <<"CacheUnmarshalError", "CacheInvalidateError">>

\* ---- C9 ----
\* the Set executions that are inside Storage.Set, holding the context they passed
InStorageSet == {i \in 1..Len(sets) : sets[i].pc = "storing"}

\* C9: the context a Set passes to Storage.Set, for a direct call as for a
\* write-back, is done only when its own write timeout has run out: cancelling the
\* context the caller supplied does not cancel it.
C9_SetContextIndependent ==
    \A i \in InStorageSet : CtxDone(sets[i].ctx) => sets[i].ctx.expired

\* ---- C10 ----
\* C10: once the context passed to a Get is cancelled, the context its write-back
\* passed to Storage.Set is still done only by its own write timeout, whose length
\* is the configured one, and the write-back can still complete its Storage.Set.
C10_WriteBackDetached ==
    \A i \in InStorageSet :
        sets[i].kind = "async" =>
            /\ CtxDone(sets[i].ctx) <=> sets[i].ctx.expired
            /\ sets[i].ctx.parent = Background
            /\ sets[i].ctx.timeout > 0
            /\ WriteTimeout > 0 => sets[i].ctx.timeout = WriteTimeout
            /\ ENABLED SetStore(i)

C10_Witness ==
    \E i \in 1..Len(sets) :
        /\ sets[i].kind = "async" /\ sets[i].pc = "done"
        /\ sets[i].call \in cancelled
        /\ ~CtxDone(sets[i].ctx)
        /\ sets[i].stored = <<<<sets[i].forKey, MarshalBinary(sets[i].built)>>>>
        /\ storage[sets[i].key] = Entry(MarshalBinary(sets[i].built))
        /\ call[sets[i].owner].id = sets[i].call /\ RetGet(sets[i].owner)

\* ---- C2 ----
WriteBacks == {i \in 1..Len(sets) : sets[i].kind = "async"}

\* C2 as stated, in the form a finished write-back shows: it has called Storage.Set
\* for the key of its Get with the serialization of the value that Get built.
C2_Original_FinishedWriteBackStoredBuilt ==
    \A i \in WriteBacks :
        sets[i].pc = "done" =>
            sets[i].stored = <<<<sets[i].forKey, MarshalBinary(sets[i].built)>>>>

\* how a write-back ends: one Storage.Set for the key of its Get with the
\* serialization of what dest held when it was marshalled, or a marshal failure
\* with its metric and no Storage.Set
SettledWriteBack(s) ==
    /\ s.pc = "done"
    /\ \/ /\ s.stored = <<<<s.forKey, MarshalBinary(s.marshalled)>>>>
          /\ s.marshalled \in Values
       \/ /\ s.err = ErrMarshal
          /\ s.stored = <<>>
          /\ s.tracked = <<"CacheMarshalError">>

\* C2 amended: under fair scheduling of the write-back goroutine, every write-back
\* a Get scheduled eventually either calls Storage.Set once for that key with the
\* serialization of the value dest holds when the write-back marshals it, or fails
\* to marshal, records the marshal-error metric and calls Storage.Set not at all.
C2_WriteBackEventuallySettles ==
    \A i \in 1..MaxCalls :
        (i \in WriteBacks) ~> (i \in WriteBacks /\ SettledWriteBack(sets[i]))

C2_Witness ==
    \E i \in WriteBacks :
        /\ sets[i].pc = "done"
        /\ sets[i].stored = <<<<sets[i].forKey, MarshalBinary(sets[i].built)>>>>
        /\ sets[i].built = 2 /\ sets[i].forKey = 2
        /\ RetGet(sets[i].owner) /\ call[sets[i].owner].id = sets[i].call

\* ---- C11 ----
\* the step in which execution i of Set returns
SetReturns(i) == sets[i].pc # "done" /\ sets'[i].pc = "done"

\* C11: the step in which an execution of Set returns (after a successful store,
\* a marshal failure or a storage failure) lowers pendingWrites by exactly one;
\* that execution lowers it at no other step, and nothing else lowers it.
C11_SetDecrementsOnce ==
    [][/\ \A i \in 1..Len(sets) :
            /\ SetReturns(i) => (pendingWrites' = pendingWrites - 1 /\ sets'[i].decs = 1)
            /\ ~SetReturns(i) => sets'[i].decs = sets[i].decs
            /\ sets[i].pc # "done" => sets[i].decs = 0
       /\ pendingWrites' < pendingWrites => \E i \in 1..Len(sets) : SetReturns(i)
      ]_vars

C11_Witness ==
    /\ Len(sets) = 2
    /\ sets[1].pc = "done" /\ sets[1].err = ErrSet /\ sets[1].decs = 1
    /\ sets[2].pc = "done" /\ sets[2].err = Nil /\ sets[2].decs = 1
    /\ sets[1].kind = "direct" /\ sets[2].kind = "async"
    /\ pendingWrites = -1

\* ---- C12 ----
\* the step in which execution i of Set returns on a MarshalBinary failure
MarshalFails(i) == sets[i].pc = "spawned" /\ sets'[i].pc = "done"

\* C12: the step in which a Set fails to serialize its value records one
\* marshal-error metric, makes no Storage.Set call and leaves the storage as it was.
C12_MarshalFailureWritesNothing ==
    [][\A i \in 1..Len(sets) :
          MarshalFails(i) =>
              /\ sets'[i].err = ErrMarshal
              /\ sets'[i].tracked = <<"CacheMarshalError">>
              /\ sets'[i].stored = <<>>
              /\ storage' = storage
      ]_vars

C12_Witness ==
    \E i \in 1..Len(sets) :
        /\ sets[i].pc = "done" /\ sets[i].err = ErrMarshal
        /\ sets[i].kind = "direct"
        /\ sets[i].stored = <<>>
        /\ storage[sets[i].key] = Entry(MarshalBinary(1))
        /\ sets[i].dest = 2

\* ---- C13 ----
\* the step in which caller p runs Invalidate
InvalidateRuns(p) == call'[p].id # call[p].id /\ call'[p].op = "Invalidate"

\* C13: Invalidate(key) calls Storage.Invalidate(key) exactly once; when that fails
\* it records one invalidate-error metric and returns the storage error, leaving
\* the storage as it was; when it succeeds the entry of key is gone, no metric is
\* recorded and nil is returned.
C13_InvalidateForwards ==
    [][\A p \in Procs :
          InvalidateRuns(p) =>
              LET c == call'[p] IN
              /\ c.pc = "done"
              /\ c.invalidates = 1
              /\ \/ /\ c.invalidateErr = Nil
                    /\ c.ret = NoError
                    /\ c.tracked = <<>>
                    /\ storage' = [storage EXCEPT ![c.key] = Absent]
                 \/ /\ c.invalidateErr = ErrInvalidate
                    /\ c.ret = PlainError(c.invalidateErr)
                    /\ c.tracked = <<"CacheInvalidateError">>
                    /\ storage' = storage
      ]_vars

C13_Witness ==
    \E p, q \in Procs :
        /\ call[p].op = "Invalidate" /\ call[p].pc = "done"
        /\ call[p].ret = PlainError(ErrInvalidate)
        /\ storage[call[p].key].present
        /\ call[q].op = "Invalidate" /\ call[q].pc = "done"
        /\ call[q].ret = NoError /\ call[q].key = 2
        /\ ~storage[2].present

\* ---- C14 ----
\* the callers whose current Get observed a miss on key k
MissedOn(k) == {p \in Procs : call[p].op = "Get" /\ call[p].key = k /\ call[p].got = "miss"}

\* C14: the Get calls that observed a miss on the same key do not share work: each
\* one still waiting for its builder can run it whatever the others have done, each
\* one past its builder has invoked it exactly once, and the calls among them that
\* returned after a successful build have scheduled as many write-backs as they
\* are, one each.
C14_NoCoalescing ==
    \A k \in Keys :
        LET M == MissedOn(k)
            B == {p \in M : call[p].pc = "done" /\ call[p].buildErr = Nil}
        IN  /\ \A p \in M :
                  /\ call[p].pc = "build" => (call[p].builds = 0 /\ ENABLED GetBuild(p))
                  /\ call[p].pc # "build" => call[p].builds = 1
            /\ \A p \in B : Cardinality(SetsOf(call[p].id)) = 1
            /\ Cardinality({i \in WriteBacks : \E p \in B : sets[i].call = call[p].id})
                   = Cardinality(B)

C14_Witness ==
    \E k \in Keys :
        /\ MissedOn(k) = Procs
        /\ \A p \in Procs : call[p].pc = "go" /\ call[p].builds = 1
        /\ call[1].built # call[2].built
        /\ pendingWrites = 2

\* ---- C15 ----
\* C15 as stated: a Get never waits for a write-back, and what it waits on is only
\* the storage read (part of its first step) and the builder call.
C15_Original_WaitsOnlyOnReadAndBuild ==
    \A p \in Procs :
        call[p].op = "Get" =>
            /\ call[p].pc \in {"build", "go", "done"}
            /\ SetsOf(call[p].id) # {} => call[p].pc = "done"

\* C15 amended: a Get is only ever waiting for its builder, about to start its write-back,
\* inside the invalidation of a payload it could not decode, or returned; starting
\* the write-back needs nothing from any Set, and whenever a Set started by a Get
\* exists, running or not, blocked or finished, that Get has already returned.
C15_GetDoesNotWaitForWrite ==
    \A p \in Procs :
        call[p].op = "Get" =>
            /\ call[p].pc \in {"build", "go", "invalidate", "done"}
            /\ call[p].pc = "go" => ENABLED GetSpawn(p)
            /\ SetsOf(call[p].id) # {} => call[p].pc = "done"

C15_Witness ==
    \E p \in Procs :
        /\ RetGet(p) /\ MissBuilt(call[p]) /\ call[p].ret = NoError
        /\ \E i \in SetsOf(call[p].id) :
               /\ sets[i].pc = "storing"
               /\ sets[i].ctx.expired
        /\ \E q \in Procs \ {p} :
               /\ RetGet(q) /\ MissBuilt(call[q])
               /\ \E j \in SetsOf(call[q].id) : sets[j].pc = "spawned"

\* ---- C16 ----
\* caller p's Get has its builder's successful return behind it
BuildSucceeded(c) ==
    /\ c.op = "Get" /\ c.got = "miss"
    /\ c.builds = 1 /\ c.buildErr = Nil /\ c.built \in Values

\* C16: pendingWrites is raised only in the step in which a Get's Build returns
\* without error, by one, and a write-back is started only by a Get whose Build
\* has returned without error and whose increment has been made; its Storage.Set
\* comes later still.
C16_WriteBackAfterBuild ==
    [][/\ pendingWrites' > pendingWrites =>
             /\ pendingWrites' = pendingWrites + 1
             /\ \E p \in Procs :
                    /\ call[p].pc = "build" /\ call[p].builds = 0 /\ call[p].incs = 0
                    /\ BuildSucceeded(call'[p]) /\ call'[p].incs = 1
       /\ \A i \in 1..Len(sets') :
             (i > Len(sets) /\ sets'[i].kind = "async") =>
                 /\ BuildSucceeded(call[sets'[i].owner])
                 /\ call[sets'[i].owner].incs = 1
                 /\ call[sets'[i].owner].id = sets'[i].call
                 /\ sets'[i].dest = call[sets'[i].owner].built
                 /\ sets'[i].stored = <<>>
       /\ \A p \in Procs :
             (call'[p].op = "Get" /\ ~BuildSucceeded(call'[p])) =>
                 (call'[p].incs = 0 /\ \A i \in 1..Len(sets') : sets'[i].call # call'[p].id)
      ]_vars

C16_Witness ==
    \E p \in Procs :
        /\ call[p].pc = "go" /\ BuildSucceeded(call[p])
        /\ call[p].incs = 1 /\ call[p].spawned = 0
        /\ pendingWrites = 1
        /\ sets = <<>>

\* ---- C17 ----
\* C17: every failed step has its metric: a storage read error CacheGetError, a
\* build error CacheLambdaError, a decode error CacheUnmarshalError, a failed
\* invalidation (Invalidate itself or the one inside Get) CacheInvalidateError, a
\* marshal error CacheMarshalError and a storage write error CacheSetError, each
\* recorded by the call or the Set in which the step failed.
C17_EveryFailureHasAMetric ==
    /\ \A p \in Procs :
          LET c == call[p] IN
          /\ c.storageErr # Nil => Count(c.tracked, "CacheGetError") >= 1
          /\ c.buildErr # Nil => Count(c.tracked, "CacheLambdaError") >= 1
          /\ DecodeFailed(c) => Count(c.tracked, "CacheUnmarshalError") >= 1
          /\ c.invalidateErr # Nil => Count(c.tracked, "CacheInvalidateError") >= 1
          /\ c.ret # NoError => Len(c.tracked) >= 1
    /\ \A i \in 1..Len(sets) :
          /\ sets[i].err = ErrMarshal => Count(sets[i].tracked, "CacheMarshalError") >= 1
          /\ sets[i].err = ErrSet => Count(sets[i].tracked, "CacheSetError") >= 1

C17_Witness ==
    /\ \E p \in Procs :
          /\ RetGet(p) /\ DecodeFailed(call[p])
          /\ call[p].invalidateErr = ErrInvalidate
          /\ Count(call[p].tracked, "CacheInvalidateError") = 1
    /\ \E i \in 1..Len(sets) :
          /\ sets[i].kind = "direct"
          /\ sets[i].err = ErrSet
          /\ sets[i].tracked = <<"CacheSetError">>

\* ---- C18 ----
\* the write-backs that are scheduled (their increment made, their goroutine
\* started or about to be) and whose Set has not returned
NumPendingWriteBacks ==
    Cardinality({p \in Procs : call[p].pc = "go"})
        + Cardinality({i \in WriteBacks : sets[i].pc # "done"})

\* C18: pendingWrites is never negative and equals the number of write-backs
\* scheduled and not yet settled, whatever Get, direct Set and Invalidate calls
\* are interleaved.
C18_CounterCountsPendingWriteBacks ==
    /\ pendingWrites >= 0
    /\ pendingWrites = NumPendingWriteBacks

\* ---- C19 ----
\* C19: whatever the caller does with dest after Get returned, every Storage.Set
\* call of a write-back carries the key of its Get and the serialization of the
\* value dest held when Build returned.
C19_WriteBackStoresBuiltValue ==
    \A i \in WriteBacks :
        \A j \in 1..Len(sets[i].stored) :
            sets[i].stored[j] = <<sets[i].forKey, MarshalBinary(sets[i].built)>>

\* ---- C20 ----
\* caller p's latest call is an Invalidate that returned nil; calls are numbered in
\* the order they were made, and Invalidate is one step, so the calls made after
\* it returned are those with a larger id
InvalidatedOk(p) ==
    call[p].op = "Invalidate" /\ call[p].pc = "done" /\ call[p].ret = NoError

\* execution i of Set has put the entry storage holds for key k
Wrote(i, k) ==
    /\ sets[i].key = k /\ sets[i].pc = "done" /\ sets[i].err = Nil
    /\ sets[i].stored # <<>>
    /\ storage[k] = Entry(sets[i].bytes)

\* C20 as stated: after a successful Invalidate(k), an entry for k in storage was
\* written by a Get or Set made after that Invalidate returned, never by a Set or
\* write-back of an earlier call.
C20_Original_NoEntryFromEarlierCalls ==
    \A p \in Procs :
        (InvalidatedOk(p) /\ storage[call[p].key].present) =>
            \E i \in 1..Len(sets) : Wrote(i, call[p].key) /\ sets[i].call > call[p].id

\* C20 amended: a successful Invalidate(k) leaves storage without an entry for k,
\* and an absent entry appears only in the step in which some Set's Storage.Set
\* for that key succeeds, with that Set's bytes; that Set may be a write-back or a
\* direct Set of a call made before the Invalidate.
C20_EntryAbsentUntilSomeSetLands ==
    [][/\ \A p \in Procs :
             (InvalidateRuns(p) /\ call'[p].ret = NoError) =>
                 ~storage'[call'[p].key].present
       /\ \A k \in Keys :
             (~storage[k].present /\ storage'[k].present) =>
                 \E i \in 1..Len(sets) :
                     /\ sets[i].pc = "storing" /\ sets'[i].pc = "done"
                     /\ sets[i].key = k
                     /\ sets'[i].err = Nil
                     /\ storage'[k] = Entry(sets[i].bytes)
      ]_vars

C20_Witness ==
    \E p \in Procs :
        /\ InvalidatedOk(p)
        /\ \E i \in WriteBacks :
               /\ sets[i].owner = p /\ sets[i].call < call[p].id
               /\ Wrote(i, call[p].key)

====
